---- MODULE Spec2Model ----
(***************************************************************************)
(* Subset construction (convert_nfa_to_dfa) and DFA.simulate of            *)
(* src/main.py, as a state machine.  One behaviour is one caller: it       *)
(* builds an NFA, converts it, and simulates the resulting DFA on one      *)
(* input string that is read symbol by symbol.  A caller may also hand a    *)
(* DFA of its own to simulate, or call NFA.epsilon_closure and NFA.move on *)
(* a set of states.                                                        *)
(***************************************************************************)
EXTENDS Integers, Sequences, FiniteSets, TLC

VARIABLES nfa, pc, dfa_states, dfa_transitions, dfa_start_state,
          dfa_accepting_states, states_to_process, current_dfa_state,
          symbols_left, input_string, current_state, lookups,
          result, error,
          ec_states, ec_closure, ec_stack, ec_previous, pushed, pushed_again,
          move_result

vars == <<nfa, pc, dfa_states, dfa_transitions, dfa_start_state,
          dfa_accepting_states, states_to_process, current_dfa_state,
          symbols_left, input_string, current_state, lookups,
          result, error,
          ec_states, ec_closure, ec_stack, ec_previous, pushed, pushed_again,
          move_result>>

convVars == <<dfa_states, dfa_transitions, dfa_start_state,
              dfa_accepting_states, states_to_process, current_dfa_state,
              symbols_left>>

simVars == <<input_string, current_state, lookups, result, error>>

\* A call of epsilon_closure or move: ec_states is the set the caller passes,
\* ec_closure and ec_stack are the locals closure and stack, ec_previous holds
\* the result of an earlier call, pushed the states appended to the stack so
\* far and pushed_again those appended more than once.
closureVars == <<ec_states, ec_closure, ec_stack, ec_previous, pushed,
                 pushed_again, move_result>>

----------------------------------------------------------------------------
(* Bounds of the model. *)

\* Largest number of transitions (edges) of the enumerated NFAs.
MaxEdges == 3

\* Longest input string handed to DFA.simulate.
MaxLen == 4

----------------------------------------------------------------------------
(* The automata the caller can build. *)

\* The epsilon marker: the empty string labels an epsilon transition.
Epsilon == ""

\* State identifiers and alphabet of the automaton of main().
nfa_states == {"q0", "q1", "q2"}

nfa_alphabet == {"0", "1"}

\* A symbol that is in no alphabet (main()'s alphabet is {0, 1}).
OtherSymbols == {"2"}

\* Every symbol an input string may contain.
InputSymbols == nfa_alphabet \cup OtherSymbols

\* The nested dict state -> label -> set of destinations is the set of its
\* triples <<state, label, destination>>; a missing key is no triple.
nfa_transitions ==
    { <<"q0", Epsilon, "q1">>,
      <<"q1", "0", "q2">>, <<"q1", "1", "q1">>,
      <<"q2", "0", "q2">>, <<"q2", "1", "q2">> }

\* NFA.__init__ stores its five arguments unchanged.
NFA(states, alphabet, transitions, start_state, accepting_states) ==
    [ states           |-> states,
      alphabet         |-> alphabet,
      transitions      |-> transitions,
      start_state      |-> start_state,
      accepting_states |-> accepting_states ]

\* The automaton built by main().
MainNFA == NFA(nfa_states, nfa_alphabet, nfa_transitions, "q0", {"q2"})

\* All subsets of E with at most k elements.
RECURSIVE SubsetsUpTo(_, _)
SubsetsUpTo(E, k) ==
    IF k = 0 THEN {{}}
    ELSE LET P == SubsetsUpTo(E, k - 1)
         IN  P \cup { S \cup {e} : S \in P, e \in E }

\* The transitions a valid NFA may have: sources and destinations are
\* states, labels are alphabet symbols or epsilon.
ValidEdges(states, alphabet) ==
    { <<s, l, d>> : s \in states, l \in alphabet \cup {Epsilon},
                    d \in states }

\* The states of the enumerated NFAs.
small_states == {"q0", "q1"}

\* The valid NFAs of the model: main()'s automaton, and every automaton with
\* states q0 (the start state) and q1, an alphabet within main()'s, any set
\* of accepting states and at most MaxEdges transitions.
NFAs ==
    {MainNFA} \cup
    UNION { { NFA(small_states, A, T, "q0", F) :
                T \in SubsetsUpTo(ValidEdges(small_states, A), MaxEdges),
                F \in SUBSET small_states } :
            A \in SUBSET nfa_alphabet }

----------------------------------------------------------------------------
(* NFA.epsilon_closure and NFA.move. *)

\* Some enumeration of a finite set (Python's iteration order of a set).
RECURSIVE SetToSeq(_)
SetToSeq(S) ==
    IF S = {} THEN <<>>
    ELSE LET x == CHOOSE y \in S : TRUE
         IN  <<x>> \o SetToSeq(S \ {x})

\* self.transitions[state][label], the empty set when a key is missing.
Targets(n, state, label) ==
    { e[3] : e \in { t \in n.transitions : t[1] = state /\ t[2] = label } }

\* The while loop of epsilon_closure: pop a state, add its unseen epsilon
\* destinations to the closure and push them.
RECURSIVE closure_loop(_, _, _)
closure_loop(n, closure, stack) ==
    IF stack = <<>> THEN closure
    ELSE LET top        == stack[Len(stack)]
             rest       == SubSeq(stack, 1, Len(stack) - 1)
             new_states == Targets(n, top, Epsilon) \ closure
         IN  closure_loop(n, closure \cup new_states,
                          rest \o SetToSeq(new_states))

\* Faulty variant: the epsilon key of the popped state is never found.
unseen_never(n, top, closure) == {}

\* Faulty variant: the test "state not in closure" is missing.
unseen_without_test(n, top, closure) == Targets(n, top, Epsilon)

\* The epsilon destinations of the popped state that are not yet in the
\* closure ("if state not in closure").
unseen(n, top, closure) == Targets(n, top, Epsilon) \ closure

\* Faulty variant: the closure never follows an epsilon transition.
epsilon_closure_without_loop(n, states) == states

epsilon_closure(n, states) == closure_loop(n, states, SetToSeq(states))

move(n, states, symbol) ==
    UNION { Targets(n, state, symbol) : state \in states }

----------------------------------------------------------------------------
(* convert_nfa_to_dfa. *)

\* Faulty variant: the start state is used without its epsilon closure.
start_closure_without_epsilon(n) == {n.start_state}

\* dfa_start_state = frozenset(nfa.epsilon_closure({nfa.start_state}))
start_closure(n) == epsilon_closure(n, {n.start_state})

\* Faulty variant: next_nfa_states is not emptied, the members of the current
\* state stay in it.
next_dfa_state_keeps_current(n, D, symbol) ==
    D \cup UNION { epsilon_closure(n, move(n, {nfa_state}, symbol)) :
                    nfa_state \in D }

\* Faulty variant: the moved-to states are recorded without their closure.
next_dfa_state_without_closure(n, D, symbol) ==
    UNION { move(n, {nfa_state}, symbol) : nfa_state \in D }

\* The inner loop over the members of current_dfa_state.
next_dfa_state(n, D, symbol) ==
    UNION { epsilon_closure(n, move(n, {nfa_state}, symbol)) : nfa_state \in D }

\* Faulty variant: the row of D is created anew for every symbol.
SetTransitionFreshRow(table, D, symbol, next) ==
    (D :> (symbol :> next)) @@ table

\* dfa_transitions[D][symbol] = next, creating the row of D when missing.
SetTransition(table, D, symbol, next) ==
    LET row == IF D \in DOMAIN table THEN table[D] ELSE <<>>
    IN  (D :> ((symbol :> next) @@ row)) @@ table

\* Faulty variant: taking one state empties the worklist.
AfterPopDropsAll(stack) == <<>>

\* Faulty variant: the last entry is read but stays on the worklist.
AfterPopKeepsAll(stack) == stack

\* The worklist that states_to_process.pop() leaves: all but the last entry.
AfterPop(stack) == SubSeq(stack, 1, Len(stack) - 1)

\* Faulty variant: the empty destination is never pushed.
MustPushNonEmpty(next, seen) == next \notin seen /\ next # {}

\* Faulty variant: no destination is ever put on the worklist.
MustPushNever(next, seen) == FALSE

\* The test that decides whether a destination is pushed on the worklist.
MustPush(next, seen) == next \notin seen

\* Faulty variant: all() in place of any().
IsAcceptingAll(n, dfa_state) ==
    \A nfa_state \in dfa_state : nfa_state \in n.accepting_states

\* any(nfa_state in nfa.accepting_states for nfa_state in dfa_state)
IsAccepting(n, dfa_state) ==
    \E nfa_state \in dfa_state : nfa_state \in n.accepting_states

\* No call of epsilon_closure or move by the caller is under way.
NoOperatorCall ==
    /\ ec_states = {}
    /\ ec_closure = {}
    /\ ec_stack = <<>>
    /\ ec_previous = <<>>
    /\ pushed = {}
    /\ pushed_again = {}
    /\ move_result = {}

Init ==
    /\ NoOperatorCall
    /\ nfa \in NFAs
    /\ pc = "while"
    /\ dfa_states = {}
    /\ dfa_transitions = <<>>
    /\ dfa_start_state = start_closure(nfa)
    /\ dfa_accepting_states = {}
    /\ states_to_process = <<dfa_start_state>>
    /\ current_dfa_state = {}
    /\ symbols_left = {}
    /\ input_string = <<>>
    /\ current_state = {}
    /\ lookups = <<>>
    /\ result = FALSE
    /\ error = <<>>

\* One turn of the while loop up to the for loop: pop the last state of the
\* worklist and add it to dfa_states.
Pop ==
    /\ pc = "while"
    /\ states_to_process # <<>>
    /\ LET D == states_to_process[Len(states_to_process)]
       IN  /\ current_dfa_state' = D
           /\ states_to_process' = AfterPop(states_to_process)
           /\ dfa_states' = dfa_states \cup {D}
    /\ symbols_left' = nfa.alphabet
    /\ pc' = IF nfa.alphabet = {} THEN "while" ELSE "for"
    /\ UNCHANGED <<nfa, dfa_transitions, dfa_start_state,
                   dfa_accepting_states>>
    /\ UNCHANGED simVars
    /\ UNCHANGED closureVars

\* One iteration of "for symbol in nfa.alphabet"; a set is iterated in an
\* order the program does not control.
ProcessSymbol ==
    /\ pc = "for"
    /\ \E symbol \in symbols_left :
          LET next == next_dfa_state(nfa, current_dfa_state, symbol)
          IN  /\ states_to_process' =
                     IF MustPush(next, dfa_states)
                     THEN Append(states_to_process, next)
                     ELSE states_to_process
              /\ dfa_transitions' =
                     SetTransition(dfa_transitions, current_dfa_state,
                                   symbol, next)
              /\ symbols_left' = symbols_left \ {symbol}
              /\ pc' = IF symbols_left' = {} THEN "while" ELSE "for"
    /\ UNCHANGED <<nfa, dfa_states, dfa_start_state, dfa_accepting_states,
                   current_dfa_state>>
    /\ UNCHANGED simVars
    /\ UNCHANGED closureVars

\* The worklist is empty: mark the accepting states and return the DFA.
Return ==
    /\ pc = "while"
    /\ states_to_process = <<>>
    /\ dfa_accepting_states' =
           { dfa_state \in dfa_states : IsAccepting(nfa, dfa_state) }
    /\ pc' = "done"
    /\ UNCHANGED <<nfa, dfa_states, dfa_transitions, dfa_start_state,
                   states_to_process, current_dfa_state, symbols_left>>
    /\ UNCHANGED simVars
    /\ UNCHANGED closureVars

----------------------------------------------------------------------------
(* DFA.simulate on the DFA that convert_nfa_to_dfa returned. *)

\* DFA(dfa_states, nfa.alphabet, dfa_transitions, dfa_start_state,
\*     dfa_accepting_states): DFA.__init__ stores its five arguments.
dfa ==
    [ states           |-> dfa_states,
      alphabet         |-> nfa.alphabet,
      transitions      |-> dfa_transitions,
      start_state      |-> dfa_start_state,
      accepting_states |-> dfa_accepting_states ]

\* Faulty variant: the membership test is lost, every symbol is refused.
NotInAlphabetAnySymbol(symbol, alphabet) == symbol # Epsilon

\* The test of simulate that raises NotInAlphabetError.
NotInAlphabet(symbol, alphabet) == symbol \notin alphabet /\ symbol # Epsilon

\* self.transitions[state][symbol] exists.
HasTransition(table, state, symbol) ==
    /\ state \in DOMAIN table
    /\ symbol \in DOMAIN table[state]

\* NotInAlphabetError(symbol, alphabet) stores its two arguments.
NotInAlphabetError(symbol, alphabet) ==
    [ symbol |-> symbol, alphabet |-> alphabet ]

\* Faulty variant: a missing table entry is reported as a symbol that is not
\* in the alphabet.
after_lookup_blames_symbol(table, state, symbol) ==
    IF HasTransition(table, state, symbol) THEN "simulate"
    ELSE "NotInAlphabetError"

\* Where self.transitions[current_state][symbol] leaves simulate: in its loop
\* when the entry exists, in Python's KeyError (not caught) when it does not.
after_lookup(table, state, symbol) ==
    IF HasTransition(table, state, symbol) THEN "simulate" ELSE "KeyError"

\* Faulty variant: membership in states in place of accepting_states.
simulate_return_in_states(d, state) == state \in d.states

\* return current_state in self.accepting_states
simulate_return(d, state) == state \in d.accepting_states

\* The caller calls dfa.simulate: current_state = self.start_state.
SimulateStart ==
    /\ pc = "done"
    /\ pc' = "simulate"
    /\ current_state' = dfa.start_state
    /\ input_string' = <<>>
    /\ lookups' = <<>>
    /\ UNCHANGED <<nfa, result, error>>
    /\ UNCHANGED convVars
    /\ UNCHANGED closureVars

\* One iteration of "for symbol in input_string": input_string is the part of
\* the input read so far, lookups the (state, symbol) pairs looked up in
\* self.transitions so far.
SimulateStep ==
    /\ pc = "simulate"
    /\ Len(input_string) < MaxLen
    /\ \E symbol \in InputSymbols :
          /\ input_string' = Append(input_string, symbol)
          /\ IF NotInAlphabet(symbol, dfa.alphabet)
             THEN /\ pc' = "NotInAlphabetError"
                  /\ error' = NotInAlphabetError(symbol, dfa.alphabet)
                  /\ UNCHANGED <<current_state, lookups>>
             ELSE /\ lookups' = Append(lookups, <<current_state, symbol>>)
                  /\ pc' = after_lookup(dfa.transitions, current_state, symbol)
                  /\ current_state' =
                         IF HasTransition(dfa.transitions, current_state, symbol)
                         THEN dfa.transitions[current_state][symbol]
                         ELSE current_state
                  /\ UNCHANGED error
    /\ UNCHANGED <<nfa, result>>
    /\ UNCHANGED convVars
    /\ UNCHANGED closureVars

\* The input is exhausted: return current_state in self.accepting_states.
SimulateReturn ==
    /\ pc = "simulate"
    /\ result' = simulate_return(dfa, current_state)
    /\ pc' = "returned"
    /\ UNCHANGED <<nfa, input_string, current_state, lookups, error>>
    /\ UNCHANGED convVars
    /\ UNCHANGED closureVars

\* The composite states a caller uses in a DFA of its own.
caller_states == { {"q0"}, {"q1"} }

\* Every transition table over the caller's states: any set of rows, each row
\* defined on any part of the alphabet.
CallerTables(alphabet) ==
    LET rows == UNION { [B -> caller_states] : B \in SUBSET alphabet }
    IN  UNION { [K -> rows] : K \in SUBSET caller_states }

\* A DFA that the caller constructs itself: DFA.__init__ stores whatever it is
\* given, also a table with missing entries.  nfa only holds the alphabet
\* that the caller passes.
CallerInit ==
    /\ NoOperatorCall
    /\ \E A \in SUBSET nfa_alphabet :
          /\ nfa = NFA(small_states, A, {}, "q0", {})
          /\ dfa_transitions \in CallerTables(A)
    /\ pc = "done"
    /\ dfa_states = caller_states
    /\ dfa_start_state \in caller_states
    /\ dfa_accepting_states \in SUBSET caller_states
    /\ states_to_process = <<>>
    /\ current_dfa_state = {}
    /\ symbols_left = {}
    /\ input_string = <<>>
    /\ current_state = {}
    /\ lookups = <<>>
    /\ result = FALSE
    /\ error = <<>>

----------------------------------------------------------------------------
(* NFA.epsilon_closure and NFA.move, called by a caller and run step by    *)
(* step.                                                                   *)

\* Every order in which a finite set can be listed or iterated.
Orders(S) ==
    { seq \in [1..Cardinality(S) -> S] :
        \A i, j \in 1..Cardinality(S) : seq[i] = seq[j] => i = j }

\* The NFAs on which the operators are called: the operators read
\* self.transitions only, so one set of accepting states per NFA is enough;
\* and every NFA over main()'s three states with at most MaxEdges
\* transitions, all of them epsilon transitions.
ClosureNFAs ==
    {MainNFA} \cup { n \in NFAs : n.accepting_states = {} }
    \cup { NFA(nfa_states, nfa_alphabet, T, "q0", {}) :
             T \in SubsetsUpTo(ValidEdges(nfa_states, {}), MaxEdges) }

\* Faulty variant: the states added to the closure are not appended to the
\* stack.
appended_never(new_states) == {}

\* stack.append(state) for every state that was added to the closure.
appended(new_states) == new_states

\* Faulty variant: closure = states, the closure is the passed set itself.
passed_set_after_add_aliased(passed, new_states) == passed \cup new_states

\* closure = set(states) is a copy: closure.add leaves the passed set alone.
passed_set_after_add(passed, new_states) == passed

\* The caller holds an NFA and a set of its states.
ClosureInit ==
    /\ nfa \in ClosureNFAs
    /\ ec_states \in SUBSET nfa.states
    /\ pc = "call"
    /\ ec_closure = {}
    /\ ec_stack = <<>>
    /\ ec_previous = <<>>
    /\ pushed = {}
    /\ pushed_again = {}
    /\ move_result = {}
    /\ dfa_states = {}
    /\ dfa_transitions = <<>>
    /\ dfa_start_state = {}
    /\ dfa_accepting_states = {}
    /\ states_to_process = <<>>
    /\ current_dfa_state = {}
    /\ symbols_left = {}
    /\ input_string = <<>>
    /\ current_state = {}
    /\ lookups = <<>>
    /\ result = FALSE
    /\ error = <<>>

\* nfa.epsilon_closure(states): closure = set(states); stack = list(states).
ClosureCall ==
    /\ pc = "call"
    /\ pc' = "closure_while"
    /\ ec_closure' = ec_states
    /\ ec_stack' \in Orders(ec_states)
    /\ pushed' = {}
    /\ pushed_again' = {}
    /\ UNCHANGED <<nfa, ec_states, ec_previous, move_result>>
    /\ UNCHANGED convVars
    /\ UNCHANGED simVars

\* One turn of "while stack": pop a state, add its unseen epsilon
\* destinations to the closure and append them to the stack.
ClosureStep ==
    /\ pc = "closure_while"
    /\ ec_stack # <<>>
    /\ LET top        == ec_stack[Len(ec_stack)]
           rest       == SubSeq(ec_stack, 1, Len(ec_stack) - 1)
           new_states == unseen(nfa, top, ec_closure)
       IN  /\ ec_closure' = ec_closure \cup new_states
           /\ \E order \in Orders(appended(new_states)) :
                  ec_stack' = rest \o order
           /\ pushed' = pushed \cup appended(new_states)
           /\ pushed_again' = pushed_again \cup (pushed \cap appended(new_states))
           /\ ec_states' = passed_set_after_add(ec_states, new_states)
    /\ UNCHANGED <<nfa, pc, ec_previous, move_result>>
    /\ UNCHANGED convVars
    /\ UNCHANGED simVars

\* The stack is empty: return closure.
ClosureReturn ==
    /\ pc = "closure_while"
    /\ ec_stack = <<>>
    /\ pc' = "closure_done"
    /\ UNCHANGED <<nfa, ec_states, ec_closure, ec_stack, ec_previous, pushed,
                   pushed_again, move_result>>
    /\ UNCHANGED convVars
    /\ UNCHANGED simVars

\* The caller passes the returned closure to epsilon_closure once more.
ClosureAgain ==
    /\ pc = "closure_done"
    /\ ec_previous = <<>>
    /\ ec_previous' = <<ec_closure>>
    /\ ec_states' = ec_closure
    /\ pc' = "call"
    /\ UNCHANGED <<nfa, ec_closure, ec_stack, pushed, pushed_again, move_result>>
    /\ UNCHANGED convVars
    /\ UNCHANGED simVars

\* nfa.move(states, symbol), with a symbol of the alphabet.
MoveCall ==
    /\ pc = "call"
    /\ \E symbol \in nfa.alphabet :
          move_result' = move(nfa, ec_states, symbol)
    /\ pc' = "move_done"
    /\ UNCHANGED <<nfa, ec_states, ec_closure, ec_stack, ec_previous, pushed,
                   pushed_again>>
    /\ UNCHANGED convVars
    /\ UNCHANGED simVars

ClosureNext ==
    ClosureCall \/ ClosureStep \/ ClosureReturn \/ ClosureAgain \/ MoveCall

\* The operators alone; once called, the loop of epsilon_closure keeps
\* running.
ClosureSpec ==
    ClosureInit /\ [][ClosureNext]_vars /\ WF_vars(ClosureStep \/ ClosureReturn)

ConvertNext == Pop \/ ProcessSymbol \/ Return

Next == Pop \/ ProcessSymbol \/ Return
        \/ SimulateStart \/ SimulateStep \/ SimulateReturn

Spec == Init /\ [][Next]_vars

\* Everything a caller can do: convert an NFA and simulate the result,
\* simulate a DFA of its own, or call the operators of an NFA.
FullNext ==
    Pop \/ ProcessSymbol \/ Return
    \/ SimulateStart \/ SimulateStep \/ SimulateReturn
    \/ ClosureCall \/ ClosureStep \/ ClosureReturn \/ ClosureAgain \/ MoveCall

FullSpec == (Init \/ CallerInit \/ ClosureInit) /\ [][FullNext]_vars

\* The conversion alone; the loop of convert_nfa_to_dfa keeps running.
ConvertSpec == Init /\ [][ConvertNext]_vars /\ WF_vars(ConvertNext)

----------------------------------------------------------------------------
(* Standard semantics of an NFA with epsilon moves, stated on runs and     *)
(* independently of the worklist code above.                               *)

\* There is a path of epsilon transitions (possibly empty) from p to q.
EpsilonPath(n, p, q) ==
    \E k \in 1..Cardinality(n.states) :
        \E path \in [1..k -> n.states] :
            /\ path[1] = p
            /\ path[k] = q
            /\ \A i \in 1..(k - 1) :
                   <<path[i], Epsilon, path[i + 1]>> \in n.transitions

\* The states reachable from S by epsilon transitions alone.
EpsilonReach(n, S) ==
    { q \in n.states : \E p \in S : EpsilonPath(n, p, q) }

\* The states in which some run of the NFA on w can end.
RECURSIVE RunEnds(_, _)
RunEnds(n, w) ==
    IF w = <<>> THEN EpsilonReach(n, {n.start_state})
    ELSE LET before == RunEnds(n, SubSeq(w, 1, Len(w) - 1))
             stepped == { q \in n.states :
                            \E p \in before :
                                <<p, w[Len(w)], q>> \in n.transitions }
         IN  EpsilonReach(n, stepped)

\* Some run of the NFA on w ends in an accepting state.
NFAAccepts(n, w) == RunEnds(n, w) \cap n.accepting_states # {}

\* The example inputs of main() and of the reference scenario.
input_string_accept == <<"0", "1", "1", "1">>

input_string_reject == <<"1">>

----------------------------------------------------------------------------
(* Claims. *)

\* C1: language equivalence.  Whenever simulate returns on the DFA converted
\* from a valid NFA, its result is TRUE exactly when some run of the NFA on
\* the input ends in an accepting state, and it does return for every input
\* over the alphabet; on main()'s automaton "0111" and "0" are accepted, "1"
\* and "" rejected.
LanguageEquivalence ==
    /\ pc = "returned" => (result <=> NFAAccepts(nfa, input_string))
    /\ pc # "KeyError"
    /\ (pc = "returned" /\ nfa = MainNFA) =>
           /\ input_string \in {input_string_accept, <<"0">>} => result
           /\ input_string \in {input_string_reject, <<>>} => ~result

\* C1 witness: main()'s automaton has accepted "0111".
LanguageEquivalenceWitness ==
    /\ nfa = MainNFA
    /\ pc = "returned"
    /\ input_string = input_string_accept
    /\ result

\* The conversion has returned its DFA.
Converted == pc \notin {"while", "for"}

\* The DFA states reachable from the start state along recorded transitions.
RECURSIVE FollowTable(_, _)
FollowTable(table, seen) ==
    LET more == { table[D][a] : <<D, a>> \in
                    { <<D, a>> \in seen \X InputSymbols :
                        HasTransition(table, D, a) } }
    IN  IF more \subseteq seen THEN seen
        ELSE FollowTable(table, seen \cup more)

ReachableDFAStates == FollowTable(dfa.transitions, {dfa.start_state})

\* C2: totality.  In the returned DFA every state reachable from the start
\* state has a transition on every alphabet symbol, and simulate never looks
\* up a (state, symbol) pair that the table lacks.
Totality ==
    Converted =>
        /\ \A D \in ReachableDFAStates : \A a \in dfa.alphabet :
               HasTransition(dfa.transitions, D, a)
        /\ \A i \in 1..Len(lookups) :
               HasTransition(dfa.transitions, lookups[i][1], lookups[i][2])
        /\ pc # "KeyError"

\* C2 witness: simulate has looked up MaxLen transitions of a DFA with at
\* least three reachable states and returned.
TotalityWitness ==
    /\ pc = "returned"
    /\ Len(lookups) = MaxLen
    /\ Cardinality(ReachableDFAStates) >= 3

\* The textbook subset construction, as a fixed point that visits nothing in
\* any order: the destination of D on a.
Delta(n, D, a) ==
    EpsilonReach(n, { q \in n.states :
                        \E p \in D : <<p, a, q>> \in n.transitions })

\* The least set of DFA states that contains seen and is closed under Delta.
RECURSIVE SubsetClosure(_, _)
SubsetClosure(n, seen) ==
    LET more == { Delta(n, D, a) : D \in seen, a \in n.alphabet }
    IN  IF more \subseteq seen THEN seen
        ELSE SubsetClosure(n, seen \cup more)

\* The one DFA that the subset construction assigns to the NFA.
ExpectedDFA(n) ==
    LET start == EpsilonReach(n, {n.start_state})
        S     == SubsetClosure(n, {start})
    IN  [ states           |-> S,
          alphabet         |-> n.alphabet,
          transitions      |-> IF n.alphabet = {} THEN <<>>
                               ELSE [ D \in S |->
                                        [ a \in n.alphabet |-> Delta(n, D, a) ] ],
          start_state      |-> start,
          accepting_states |-> { D \in S : D \cap n.accepting_states # {} } ]

\* C3: order independence.  Whatever order the alphabet was iterated in, and
\* hence whatever order the pending states were taken in, the returned DFA is
\* the one DFA determined by the NFA: same states, transition table, start
\* state and accepting set.
OrderIndependence == pc = "done" => dfa = ExpectedDFA(nfa)

\* C3 witness: main()'s automaton converted along the order that iterates
\* "1" before "0" at the start state, so that {q1} is the last state taken
\* (the other order takes {q2} last).
OrderIndependenceWitness ==
    /\ pc = "done"
    /\ nfa = MainNFA
    /\ current_dfa_state = {"q1"}

\* C4: symbol-not-in-alphabet failure.  An input with a symbol outside the
\* DFA's alphabet never makes simulate return a boolean (nor reach the table
\* with that symbol): simulate fails with NotInAlphabetError carrying the
\* leftmost offending symbol and the DFA's alphabet, having looked up only
\* the symbols before it.
SymbolNotInAlphabet ==
    /\ pc \in {"simulate", "returned", "KeyError"} =>
           \A i \in 1..Len(input_string) : input_string[i] \in dfa.alphabet
    /\ pc = "NotInAlphabetError" =>
           LET k == Len(input_string)
           IN  /\ k >= 1
               /\ input_string[k] \notin dfa.alphabet
               /\ \A i \in 1..(k - 1) : input_string[i] \in dfa.alphabet
               /\ error = [ symbol |-> input_string[k],
                            alphabet |-> dfa.alphabet ]
               /\ Len(lookups) = k - 1
               /\ \A i \in 1..(k - 1) : lookups[i][2] = input_string[i]

\* C4 witness: simulate has failed on "2" after reading symbols of the
\* alphabet.
SymbolNotInAlphabetWitness ==
    /\ pc = "NotInAlphabetError"
    /\ Len(input_string) >= 3
    /\ error.symbol = "2"
    /\ error.alphabet = nfa_alphabet

\* C5: termination of conversion.  For every NFA, cyclic or not, the worklist
\* loop eventually finds the worklist empty and returns the DFA.
Termination == <>(pc = "done" /\ states_to_process = <<>>)

\* C5 witness: the conversion has returned for an NFA with an epsilon cycle
\* between q0 and q1 and a symbol self-loop.
TerminationWitness ==
    /\ pc = "done"
    /\ { <<"q0", Epsilon, "q1">>, <<"q1", Epsilon, "q0">>,
         <<"q0", "0", "q0">> } \subseteq nfa.transitions

\* C6: exactly-once processing, as claimed.  No composite state is on the
\* worklist twice, and no state that was already taken from the worklist (a
\* member of dfa_states) is pending again.
ExactlyOnce ==
    /\ \A i, j \in 1..Len(states_to_process) :
           i # j => states_to_process[i] # states_to_process[j]
    /\ \A i \in 1..Len(states_to_process) :
           states_to_process[i] \notin dfa_states

\* An NFA whose only transition is the epsilon self-loop of its start state.
EpsilonOnly(n) ==
    n.transitions = { <<n.start_state, Epsilon, n.start_state>> }

\* What simulate returns on an epsilon-only NFA: TRUE on the empty input of
\* an accepting start state, FALSE otherwise.
EpsilonOnlyLanguage ==
    pc = "returned" =>
        (result <=> (input_string = <<>>
                     /\ nfa.start_state \in nfa.accepting_states))

\* C7 as claimed: an epsilon-only NFA converts to a DFA with exactly one
\* state, which rejects every non-empty string and accepts the empty string
\* iff the start state is accepting.
EpsilonOnlySingleState ==
    (Converted /\ EpsilonOnly(nfa)) =>
        /\ Cardinality(dfa.states) = 1
        /\ EpsilonOnlyLanguage

\* C7 amended: an epsilon-only NFA converts to a DFA whose states are the
\* start state {start} and, unless the alphabet is empty, the dead state {};
\* it rejects every non-empty string over the alphabet and accepts the empty
\* string iff the start state is accepting.
EpsilonOnlyStartAndDeadState ==
    (Converted /\ EpsilonOnly(nfa)) =>
        /\ dfa.states = IF nfa.alphabet = {} THEN {{nfa.start_state}}
                        ELSE {{nfa.start_state}, {}}
        /\ EpsilonOnlyLanguage

\* C7 witness: the DFA of the NFA with just the epsilon self-loop of q0 and
\* alphabet {0, 1} has rejected a non-empty string.
EpsilonOnlyWitness ==
    /\ pc = "returned"
    /\ nfa.transitions = { <<"q0", Epsilon, "q0">> }
    /\ nfa.alphabet = nfa_alphabet
    /\ "q0" \in nfa.accepting_states
    /\ Len(input_string) >= 1
    /\ ~result

\* No NFA state in D has a transition on a.
NoMove(n, D, a) ==
    ~ \E p \in D : \E q \in n.states : <<p, a, q>> \in n.transitions

\* C8: dead state.  Whenever no member of some state D of the returned DFA
\* has a transition on some alphabet symbol a, the DFA has the empty set as
\* a state, records D --a--> {}, loops from {} to {} on every symbol, and does
\* not mark {} accepting.
DeadState ==
    Converted =>
        \A D \in dfa.states : \A a \in dfa.alphabet :
            NoMove(nfa, D, a) =>
                /\ {} \in dfa.states
                /\ HasTransition(dfa.transitions, D, a)
                /\ dfa.transitions[D][a] = {}
                /\ \A b \in dfa.alphabet :
                       /\ HasTransition(dfa.transitions, {}, b)
                       /\ dfa.transitions[{}][b] = {}
                /\ {} \notin dfa.accepting_states

\* C8 witness: a returned DFA with the dead state besides two other states,
\* one of them accepting.
DeadStateWitness ==
    /\ pc = "done"
    /\ {} \in dfa.states
    /\ Cardinality(dfa.states) >= 3
    /\ dfa.accepting_states # {}

\* C9: accepting states.  In the returned DFA accepting_states is a subset of
\* states, and a state is accepting iff it contains an NFA accepting state.
AcceptingStates ==
    Converted =>
        /\ dfa.accepting_states \subseteq dfa.states
        /\ \A D \in dfa.states :
               D \in dfa.accepting_states <=> D \cap nfa.accepting_states # {}

\* C9 witness: a returned DFA with an accepting composite state of two NFA
\* states, only one of them accepting, and a non-accepting state.
AcceptingStatesWitness ==
    /\ pc = "done"
    /\ nfa.accepting_states = {"q1"}
    /\ {"q0", "q1"} \in dfa.accepting_states
    /\ dfa.accepting_states # dfa.states

\* C10: start state.  For every NFA, also without alphabet or transitions,
\* the start state of the returned DFA is the set of NFA states reachable
\* from nfa.start_state by epsilon transitions, and it is a DFA state.
StartState ==
    Converted =>
        /\ dfa.start_state = EpsilonReach(nfa, {nfa.start_state})
        /\ dfa.start_state \in dfa.states

\* C10 witness: the conversion has returned for an NFA with an empty alphabet
\* whose start state reaches q1 by epsilon.
StartStateWitness ==
    /\ pc = "done"
    /\ nfa.alphabet = {}
    /\ dfa.start_state = {"q0", "q1"}

\* C11: empty input.  On every DFA, converted or built by the caller,
\* simulate on the empty string reads no symbol, looks up no transition,
\* raises no error, and returns TRUE iff the start state is accepting.
EmptyInput ==
    /\ input_string = <<>> => pc \notin {"NotInAlphabetError", "KeyError"}
    /\ (pc = "returned" /\ input_string = <<>>) =>
           /\ lookups = <<>>
           /\ error = <<>>
           /\ result <=> (dfa.start_state \in dfa.accepting_states)

\* C11 witness: simulate has accepted the empty string on a caller-built DFA
\* whose table is empty, and whose start state is accepting.
EmptyInputWitness ==
    /\ pc = "returned"
    /\ input_string = <<>>
    /\ result
    /\ dfa.transitions = <<>>
    /\ dfa.alphabet = nfa_alphabet
    /\ dfa.start_state \in dfa.accepting_states

\* T contains the epsilon destinations of all its members.
EpsilonClosed(n, T) == \A p \in T : Targets(n, p, Epsilon) \subseteq T

\* C12: closure correctness.  epsilon_closure(S) returns the smallest set
\* that contains S and is closed under epsilon transitions, which is the set
\* of states reachable from S by zero or more epsilon transitions; the
\* closure that the conversion uses is the same set.
ClosureCorrect ==
    pc = "closure_done" =>
        /\ ec_states \subseteq ec_closure
        /\ EpsilonClosed(nfa, ec_closure)
        /\ \A T \in SUBSET nfa.states :
               (ec_states \subseteq T /\ EpsilonClosed(nfa, T))
                   => ec_closure \subseteq T
        /\ ec_closure = EpsilonReach(nfa, ec_states)
        /\ ec_closure = epsilon_closure(nfa, ec_states)

\* C12 witness: the closure of {q0} has been returned as {q0, q1, q2} along
\* a chain of two epsilon transitions.
ClosureCorrectWitness ==
    /\ pc = "closure_done"
    /\ ec_previous = <<>>
    /\ ec_states = {"q0"}
    /\ ec_closure = {"q0", "q1", "q2"}
    /\ nfa.transitions = { <<"q0", Epsilon, "q1">>, <<"q1", Epsilon, "q2">> }

\* C13: closure idempotence.  epsilon_closure applied to a set it returned
\* returns that set again.
ClosureIdempotent ==
    (pc = "closure_done" /\ ec_previous # <<>>) => ec_closure = ec_previous[1]

\* C13 witness: the second call has returned, on a closure that is larger
\* than the set passed first and lies on an epsilon cycle.
ClosureIdempotentWitness ==
    /\ pc = "closure_done"
    /\ ec_previous = << {"q0", "q1", "q2"} >>
    /\ { <<"q0", Epsilon, "q1">>, <<"q1", Epsilon, "q2">>,
         <<"q2", Epsilon, "q0">> } \subseteq nfa.transitions

\* C14: closure termination.  epsilon_closure, once in its loop, returns,
\* also on cyclic epsilon transitions: no state of the passed set is
\* appended to the stack, and no state is appended twice.
ClosureTermination ==
    /\ (pc = "closure_while") ~> (pc = "closure_done")
    /\ [](pc = "closure_while" => (pushed \cap ec_states = {}
                                   /\ pushed_again = {}))

\* C14 witness: epsilon_closure has returned on an NFA with an epsilon
\* self-loop on q0 and an epsilon cycle through q0 and q1.
ClosureTerminationWitness ==
    /\ pc = "closure_done"
    /\ pushed = {"q1"}
    /\ { <<"q0", Epsilon, "q0">>, <<"q0", Epsilon, "q1">>,
         <<"q1", Epsilon, "q0">> } \subseteq nfa.transitions

\* C15: missing-transition fault.  When the table of a caller-built DFA has
\* no entry for the current state and a symbol of the alphabet, simulate
\* neither returns nor raises NotInAlphabetError: it ends in the lookup's
\* own fault (KeyError); in every other outcome all lookups found an entry.
MissingTransitionFault ==
    /\ pc \in {"simulate", "returned", "NotInAlphabetError"} =>
           \A i \in 1..Len(lookups) :
               HasTransition(dfa.transitions, lookups[i][1], lookups[i][2])
    /\ pc = "KeyError" =>
           LET k == Len(lookups)
           IN  /\ k >= 1
               /\ k = Len(input_string)
               /\ lookups[k] = <<current_state, input_string[k]>>
               /\ input_string[k] \in dfa.alphabet
               /\ ~HasTransition(dfa.transitions, current_state,
                                 input_string[k])
               /\ error = <<>>

\* C15 witness: on a caller-built DFA simulate has followed one transition
\* and then found no entry for a symbol of the alphabet.
MissingTransitionFaultWitness ==
    /\ pc = "KeyError"
    /\ Len(lookups) = 2
    /\ lookups[1][1] # lookups[2][1]
    /\ dfa.alphabet = nfa_alphabet

\* C16: the NFA is read-only.  No step of the conversion, of epsilon_closure
\* or of move changes the NFA's states, alphabet, transitions, start state
\* or accepting states, and no step of a call of epsilon_closure or move
\* changes the set of states that was passed to it.
NFAReadOnly ==
    [][ /\ nfa' = nfa
        /\ (pc \in {"call", "closure_while"}) => ec_states' = ec_states ]_vars

\* C16 witness: epsilon_closure has returned a closure larger than the set
\* {q0} passed to it on main()'s automaton.
NFAReadOnlyWitness ==
    /\ pc = "closure_done"
    /\ nfa = MainNFA
    /\ ec_previous = <<>>
    /\ ec_states = {"q0"}
    /\ ec_closure = {"q0", "q1"}

\* C17: after the conversion, for every DFA state D and every symbol a of
\* the alphabet, transitions[D][a] exists and is the epsilon closure of the
\* set of NFA states reachable from the members of D on a.
TransitionCorrect ==
    Converted =>
        \A D \in dfa.states :
            \A a \in dfa.alphabet :
                /\ HasTransition(dfa.transitions, D, a)
                /\ dfa.transitions[D][a] =
                       epsilon_closure(nfa, move(nfa, D, a))
                /\ dfa.transitions[D][a] = EpsilonReach(nfa, move(nfa, D, a))

\* C17 witness: a converted DFA with a state of two NFA states whose
\* destination on some symbol is strictly larger than the moved-to set.
TransitionCorrectWitness ==
    /\ pc = "done"
    /\ \E D \in dfa.states :
           /\ Cardinality(D) = 2
           /\ \E a \in dfa.alphabet :
                  /\ move(nfa, D, a) # {}
                  /\ dfa.transitions[D][a] # move(nfa, D, a)

\* C18: after the conversion, the DFA's states are exactly the states
\* reachable from the start state by following the table, every destination
\* in the table is one of the states, and no unreachable set is a key.
StatesReachable ==
    Converted =>
        /\ dfa.states = ReachableDFAStates
        /\ \A D \in DOMAIN dfa.transitions :
               /\ D \in ReachableDFAStates
               /\ \A a \in DOMAIN dfa.transitions[D] :
                      dfa.transitions[D][a] \in dfa.states

\* C18 witness: a converted DFA of three states, one of which is only
\* reached through another state and not directly from the start state.
StatesReachableWitness ==
    /\ pc = "done"
    /\ Cardinality(dfa.states) = 3
    /\ \E D \in dfa.states :
           /\ D # dfa.start_state
           /\ \A a \in dfa.alphabet : dfa.transitions[dfa.start_state][a] # D

\* C19: at every point of the worklist loop, and so in the returned DFA,
\* every set in dfa_states, on the worklist, under processing, or recorded as
\* a transition destination is closed under epsilon transitions: it equals
\* its own epsilon closure.
EpsilonClosedStates ==
    LET closed(D) == /\ D = epsilon_closure(nfa, D)
                     /\ D = EpsilonReach(nfa, D)
    IN  /\ \A D \in dfa_states : closed(D)
        /\ \A i \in 1..Len(states_to_process) : closed(states_to_process[i])
        /\ pc = "for" => closed(current_dfa_state)
        /\ \A D \in DOMAIN dfa_transitions :
               \A a \in DOMAIN dfa_transitions[D] : closed(dfa_transitions[D][a])
        /\ closed(dfa_start_state)

\* C19 witness: inside the symbol loop, the worklist holds a set that
\* contains a state together with one of its epsilon successors, and that
\* set is also a recorded destination.
EpsilonClosedStatesWitness ==
    /\ pc = "for"
    /\ \E i \in 1..Len(states_to_process) :
           LET D == states_to_process[i]
           IN  /\ \E p \in D : \E q \in D \ {p} : q \in Targets(nfa, p, Epsilon)
               /\ \E E \in DOMAIN dfa_transitions :
                      \E a \in DOMAIN dfa_transitions[E] :
                          dfa_transitions[E][a] = D

\* C20: transition rows cover all states.  In the returned DFA, for every
\* NFA including one with an empty alphabet, the keys of the transitions
\* table are exactly the DFA's states and the labels of every row are exactly
\* the alphabet.  The row of a state is created inside the loop over the
\* alphabet, so with an empty alphabet the start state is a state without a
\* row and this formula is violated.
RowsCoverStates ==
    Converted =>
        /\ DOMAIN dfa.transitions = dfa.states
        /\ \A D \in DOMAIN dfa.transitions :
               DOMAIN dfa.transitions[D] = dfa.alphabet

====
